---------------------------- MODULE Spec2Model ----------------------------
(***************************************************************************)
(* A model of pommel's synthesis core (src/src/lib.rs) and of its boundary *)
(* layer (src/src/ffi.rs).                                                 *)
(*                                                                         *)
(* Numbers.  An f64 is modelled as an extended rational <<n, d>>: d > 0 is *)
(* the finite value n/d in lowest terms, <<1,0>> and <<-1,0>> are the two  *)
(* infinities and <<0,0>> is NaN.  Arithmetic is exact, so the model says  *)
(* what the f64 code computes up to rounding.  Sine, whose values are      *)
(* irrational, is left out of the modelled waveforms; the halving rates    *)
(* the model draws make every decay exponent a whole number.               *)
(*                                                                         *)
(* Time.  A std::time::Duration is a whole number of nanoseconds, as       *)
(* Duration::as_nanos gives it, between 0 and Duration::MAX.  The model    *)
(* scales the two fields: NANOS_PER_SEC subsecond units to the second and  *)
(* U64_MAX whole seconds.  A Duration of the model is either an early     *)
(* one, of fewer than U64_MAX - 2 whole seconds, or within an early one of *)
(* Duration::MAX; the scale is wide enough that early Durations never add  *)
(* up to a late one, so that the model saturates only where the code does. *)
(* The phase accumulator of an operator grows without bound: the sample    *)
(* calls of the model are those that leave it at MaxPeriod at most, or at  *)
(* Duration::MAX.  The f64 roundings the model keeps are that of the late  *)
(* Durations, which are 2^64 seconds as an f64 each, and the narrowing of  *)
(* an f64 to an f32.                                                       *)
(*                                                                         *)
(* Panics.  A Rust panic (a remainder by zero, Duration::from_secs_f64 of  *)
(* a NaN) is the outcome Panic of the operator that models the function;   *)
(* once a call panicked, no further call is made.                          *)
(***************************************************************************)
EXTENDS Integers, Sequences, FiniteSets, TLC

(* ------------------------------ bounds -------------------------------- *)

\* Subsecond units in one second (the source's 1_000_000_000, scaled).
NANOS_PER_SEC == 2
\* The largest whole-seconds field (the source's u64::MAX, scaled).
U64_MAX == 15
\* Global times the callers pass are 0..MaxTime subsecond units.
MaxTime == 3
\* The greatest phase accumulator the model follows an operator to, in
\* subsecond units, short of Duration::MAX.
MaxPeriod == 8
\* The longest operator list of a Combinator or a Stacker.
MaxOps == 2
\* The largest nanoseconds field of a boundary time pair (the source's
\* u32::MAX, scaled: it holds more than one second).
U32_MAX == 5
\* The longest buffer a batch fill is given.
MaxFill == 2

(* ---------------------------- f64 values ------------------------------ *)

RECURSIVE Gcd(_, _)
Gcd(a, b) == IF b = 0 THEN a ELSE Gcd(b, a % b)

Abs(n) == IF n < 0 THEN -n ELSE n
Sign(n) == IF n < 0 THEN -1 ELSE IF n > 0 THEN 1 ELSE 0

NaN == <<0, 0>>
PosInf == <<1, 0>>
NegInf == <<-1, 0>>
Zero == <<0, 1>>
One == <<1, 1>>

\* The f64 of the fraction n/d: lowest terms, positive denominator.
F(n, d) ==
    IF d = 0 THEN <<Sign(n), 0>>
    ELSE LET g == Gcd(Abs(n), Abs(d))
         IN  <<(Sign(d) * n) \div g, Abs(d) \div g>>

FInt(n) == <<n, 1>>
IsNaN(x) == x = NaN
IsFinite(x) == x[2] > 0

FNeg(x) == <<-x[1], x[2]>>
FAdd(x, y) ==
    IF x[2] = 0 /\ y[2] = 0
    THEN (IF x = y THEN x ELSE NaN)
    ELSE F(x[1] * y[2] + y[1] * x[2], x[2] * y[2])
FSub(x, y) == FAdd(x, FNeg(y))
FMul(x, y) == F(x[1] * y[1], x[2] * y[2])
FInv(y) == IF y[1] < 0 THEN <<-y[2], -y[1]>> ELSE <<y[2], y[1]>>
FDiv(x, y) == FMul(x, FInv(y))
\* Comparisons: false as soon as one side is NaN.
FLt(x, y) ==
    /\ ~IsNaN(x) /\ ~IsNaN(y)
    /\ x # y
    /\ IF x[2] = 0 THEN x = NegInf
       ELSE IF y[2] = 0 THEN y = PosInf
       ELSE x[1] * y[2] < y[1] * x[2]
FGt(x, y) == FLt(y, x)
FAbs(x) == <<Abs(x[1]), x[2]>>
\* The largest integer not above a finite x.
FFloor(x) == x[1] \div x[2]
\* f64::rem_euclid(1.0): the fractional part in [0, 1); NaN for NaN and infinities.
RemEuclid1(x) ==
    IF ~IsFinite(x) THEN NaN ELSE F(x[1] - FFloor(x) * x[2], x[2])
RECURSIVE Pow2(_)
Pow2(k) == IF k = 0 THEN 1 ELSE 2 * Pow2(k - 1)
\* 0.5f64.powf(e) for the exponents the model reaches: whole numbers >= 0, NaN.
HalfPowf(e) ==
    IF IsNaN(e) THEN NaN
    ELSE IF e = PosInf THEN Zero
    ELSE IF e = NegInf THEN PosInf
    ELSE IF e[1] >= 0 THEN F(1, Pow2(FFloor(e)))
    ELSE FInt(Pow2(-FFloor(e)))

(* ----------------------------- Duration ------------------------------- *)

\* Duration::MAX in subsecond units: u64::MAX seconds and NANOS_PER_SEC - 1.
DURATION_MAX == U64_MAX * NANOS_PER_SEC + (NANOS_PER_SEC - 1)

Min(a, b) == IF a < b THEN a ELSE b
saturating_add(a, b) == Min(a + b, DURATION_MAX)
saturating_sub(a, b) == IF a < b THEN 0 ELSE a - b
as_secs(d) == d \div NANOS_PER_SEC
subsec_nanos(d) == d % NANOS_PER_SEC
\* Duration::as_secs_f64.  An f64 has 53 bits: it cannot tell a Duration
\* within 1024 seconds of u64::MAX whole seconds from 2^64 seconds, and gives
\* 2^64 for each of them: for Duration::MAX, for the Durations of one second
\* less, and for what is left of those when an early time is taken away.
\* Scaled, these are the Durations of at least U64_MAX - 2 whole seconds.
as_secs_f64(d) ==
    IF as_secs(d) >= U64_MAX - 2 THEN F(U64_MAX + 1, 1) ELSE F(d, NANOS_PER_SEC)

\* A value or a panic: the outcome of a function that may panic.
Ok(v) == [panic |-> FALSE, v |-> v]
Panic == [panic |-> TRUE, v |-> 0]

\* n/d, for n >= 0 and d > 0, rounded to the nearest whole number, a tie to
\* the even one.
RoundHalfEven(n, d) ==
    LET q == n \div d
        r == n % d
    IN  IF 2 * r < d THEN q
        ELSE IF 2 * r > d THEN q + 1
        ELSE IF q % 2 = 0 THEN q ELSE q + 1

\* Duration::try_from_secs_f64: Err (here -1) for a negative, NaN or too large
\* value; else the value rounded to whole subsecond units, ties to even.
try_from_secs_f64(x) ==
    IF ~IsFinite(x) \/ x[1] < 0 THEN -1
    ELSE LET units == RoundHalfEven(x[1] * NANOS_PER_SEC, x[2])
         IN  IF units > DURATION_MAX THEN -1 ELSE units
\* Duration::from_secs_f64 panics where try_from_secs_f64 fails.
from_secs_f64(x) ==
    IF try_from_secs_f64(x) < 0 THEN Panic ELSE Ok(try_from_secs_f64(x))

\* time::wrap_duration: the remainder of a u128 division, a panic when max is zero.
wrap_duration(duration, max) ==
    IF max = 0 THEN Panic ELSE Ok(duration % max)

\* time::duration_saturating_mul_f64.
duration_saturating_mul_f64(lhs, rhs) ==
    IF FLt(rhs, Zero) THEN 0
    ELSE LET d == try_from_secs_f64(FMul(rhs, as_secs_f64(lhs)))
         IN  IF d < 0 THEN DURATION_MAX ELSE d

(* ------------------------------ Option -------------------------------- *)

\* Option<T>: None is the empty tuple, Some(x) the one-element tuple.
None == <<>>
Some(x) == <<x>>
unwrap_or(o, default) == IF o = None THEN default ELSE o[1]

(* --------------------------- Sample (PCM) ----------------------------- *)

\* Sample::get, lines 65-73: the period shifted by the phase offset; "silent"
\* is the early return of 0.0.
Sample_offset_period(period, phase_offset) ==
    IF FLt(phase_offset, Zero)
    THEN LET negative_phase_offset_period == from_secs_f64(FNeg(phase_offset))
         IN  IF negative_phase_offset_period.panic
             THEN [kind |-> "panic", v |-> 0]
             ELSE IF negative_phase_offset_period.v > period
             THEN [kind |-> "silent", v |-> 0]
             ELSE [kind |-> "period",
                   v |-> saturating_sub(period, negative_phase_offset_period.v)]
    ELSE LET offset == from_secs_f64(phase_offset)
         IN  IF offset.panic
             THEN [kind |-> "panic", v |-> 0]
             ELSE [kind |-> "period", v |-> saturating_add(period, offset.v)]

\* Sample::get folding the whole period, not the part past the loop point.
Sample_loop_period_unanchored(self, period) ==
    IF period < self.loop_point THEN Ok(period)
    ELSE wrap_duration(period, self.loop_duration)

\* Sample::get, lines 74-79: the period folded into the loop.
Sample_loop_period(self, period) ==
    IF period < self.loop_point THEN Ok(period)
    ELSE LET wrapped == wrap_duration(saturating_sub(period, self.loop_point),
                                      self.loop_duration)
         IN  IF wrapped.panic THEN Panic
             ELSE Ok(saturating_add(wrapped.v, self.loop_point))

\* Sample::get, lines 80-82: the amplitude stored at a period, 0.0 past the data.
Sample_lookup(self, period) ==
    LET sample_index ==
            as_secs(duration_saturating_mul_f64(period, self.samples_per_period))
    IN  IF sample_index < Len(self.pcm_data)
        THEN self.pcm_data[sample_index + 1]
        ELSE Zero

Sample_get(self, period, phase_offset) ==
    LET shifted == Sample_offset_period(period, phase_offset)
    IN  IF shifted.kind = "panic" THEN Panic
        ELSE IF shifted.kind = "silent" THEN Ok(Zero)
        ELSE LET looped == Sample_loop_period(self, shifted.v)
             IN  IF looped.panic THEN Panic
                 ELSE Ok(Sample_lookup(self, looped.v))

(* ----------------------------- Waveform ------------------------------- *)

\* The wrapped phase of Waveform::sample, lines 128-129.
Waveform_phase(period, phase_offset) ==
    RemEuclid1(FAdd(as_secs_f64(subsec_nanos(period)), RemEuclid1(phase_offset)))

\* Waveform::sample.  samples is the bank: a function from the SampleIDs it
\* holds to Samples.
RECURSIVE Waveform_sample(_, _, _, _)
Waveform_sample(self, samples, period0, phase_offset) ==
    LET monotonic_period == period0
        period == subsec_nanos(period0)
        phase == Waveform_phase(period0, phase_offset)
    IN  CASE self.ty = "Pulse" ->
                Ok(IF FGt(phase, self.duty_cycle) THEN One ELSE FNeg(One))
          [] self.ty = "Triangle" ->
                Ok(IF FLt(phase, F(1, 2))
                   THEN FSub(FMul(phase, FInt(4)), One)
                   ELSE FSub(FInt(3), FMul(phase, FInt(4))))
          [] self.ty = "Sawtooth" -> Ok(FSub(FMul(phase, FInt(2)), One))
          [] self.ty = "InvertedSawtooth" -> Ok(FAdd(FMul(phase, FInt(-2)), One))
          [] self.ty = "PCM" ->
                IF self.sample_id \notin DOMAIN samples THEN Ok(Zero)
                ELSE Sample_get(samples[self.sample_id], monotonic_period, phase_offset)
          [] self.ty = "Constant" -> Ok(self.value)
          [] self.ty = "Thin" ->
                IF FGt(phase, self.waveform_active_percent) THEN Ok(Zero)
                ELSE LET scaled == from_secs_f64(FDiv(phase, self.waveform_active_percent))
                     IN  IF scaled.panic THEN Panic
                         ELSE Waveform_sample(self.base, samples, scaled.v, phase_offset)
          [] self.ty = "Cut" ->
                IF FGt(phase, self.waveform_active_percent) THEN Ok(Zero)
                ELSE Waveform_sample(self.base, samples, period, phase_offset)
          [] self.ty = "Absolute" ->
                LET inner == Waveform_sample(self.base, samples, period, phase_offset)
                IN  IF inner.panic THEN Panic ELSE Ok(FAbs(inner.v))

(* ----------------------------- Envelope ------------------------------- *)

\* Envelope::sample_volume: None when the envelope has finished.
Envelope_sample_volume(self, note_time, stop_point) ==
    IF stop_point # None
       /\ note_time > saturating_add(stop_point[1], self.release_time)
    THEN None
    ELSE LET release_multiplier ==
                 IF stop_point # None
                 THEN LET release_progress == saturating_sub(note_time, stop_point[1])
                          release_fraction ==
                              FDiv(as_secs_f64(release_progress),
                                   as_secs_f64(self.release_time))
                      IN  FSub(One, release_fraction)
                 ELSE One
         IN  IF note_time < self.attack_time
             THEN LET attack_fraction ==
                          FDiv(as_secs_f64(note_time), as_secs_f64(self.attack_time))
                  IN  Some(FMul(attack_fraction, release_multiplier))
             ELSE LET time_from_decay_start == saturating_sub(note_time, self.attack_time)
                      decay_multiplier ==
                          HalfPowf(FMul(as_secs_f64(time_from_decay_start),
                                        self.halving_rate))
                  IN  Some(FMul(decay_multiplier, release_multiplier))

(* ----------------------------- Operator ------------------------------- *)

\* Operator::new.
Operator_new(waveform, envelope, modifiers) ==
    [waveform |-> waveform, envelope |-> envelope, modifiers |-> modifiers,
     frequency |-> Zero, peak_volume |-> Zero,
     start_time |-> None, stop_point |-> None, last_global_time |-> None,
     current_waveform_period |-> 0]

\* The three values of start_time: Option<Option<Duration>>.
Off == None
Armed == Some(None)
Started(t) == Some(Some(t))

\* Operator::play as the three-state description has it: always Armed.
Operator_play_always_armed(self, frequency, volume) ==
    [self EXCEPT !.peak_volume = FMul(volume, self.modifiers.volume_multiplier),
                 !.frequency = FMul(frequency, self.modifiers.frequency_multiplier),
                 !.start_time = Some(None),
                 !.stop_point = None]

\* Operator::play starting the note's waveform from phase zero.
Operator_play_restarts_phase(self, frequency, volume) ==
    [self EXCEPT !.peak_volume = FMul(volume, self.modifiers.volume_multiplier),
                 !.frequency = FMul(frequency, self.modifiers.frequency_multiplier),
                 !.start_time = Some(self.last_global_time),
                 !.stop_point = None,
                 !.current_waveform_period = 0]

\* Operator::play.
Operator_play(self, frequency, volume) ==
    [self EXCEPT !.peak_volume = FMul(volume, self.modifiers.volume_multiplier),
                 !.frequency = FMul(frequency, self.modifiers.frequency_multiplier),
                 !.start_time = Some(self.last_global_time),
                 !.stop_point = None]

\* Operator::release storing the last global time on every call.
Operator_release_overwrites(self) ==
    [self EXCEPT !.stop_point = Some(unwrap_or(self.last_global_time, 0))]

\* Operator::release.
Operator_release(self) ==
    IF self.stop_point # None THEN self
    ELSE [self EXCEPT !.stop_point = Some(unwrap_or(self.last_global_time, 0))]

\* Operator::cut leaving the note armed instead of off.
Operator_cut_rearms(self) ==
    [self EXCEPT !.start_time = Some(None), !.stop_point = None]

\* Operator::cut.
Operator_cut(self) ==
    [self EXCEPT !.start_time = None, !.stop_point = None]

\* What a sample call gives back: the operator after the call, the Option<f64>
\* it returned and the return statement it left by ("off", "not_started",
\* "ended", "value"), or "panic" when the call panicked.
Outcome(op, result, ret) == [op |-> op, result |-> result, ret |-> ret]

\* Operator::sample, lines 313-316, with the operator switched off as well.
Operator_sample_ended_resets(started) ==
    Outcome(Operator_cut(started), None, "ended")

\* Operator::sample, lines 313-316: the envelope has finished; the operator
\* is left as it is.
Operator_sample_ended(started) ==
    Outcome(started, None, "ended")

\* Operator::sample, lines 321-334, with the period of this step alone in
\* the place of the accumulated one.
Operator_sample_value_unaccumulated(self, data, delta_time, phase_offset, envelope_multiplier) ==
    LET advanced ==
            [self EXCEPT !.current_waveform_period =
                duration_saturating_mul_f64(delta_time, self.frequency)]
        wave == Waveform_sample(advanced.waveform, data,
                                advanced.current_waveform_period,
                                FAdd(phase_offset, advanced.modifiers.constant_phase_offset))
    IN  IF wave.panic THEN Outcome(advanced, None, "panic")
        ELSE Outcome(advanced,
                     Some(FMul(FMul(wave.v, envelope_multiplier), advanced.peak_volume)),
                     "value")

\* Operator::sample, lines 321-334: the phase accumulator advanced and the
\* waveform sampled.
Operator_sample_value(self, data, delta_time, phase_offset, envelope_multiplier) ==
    LET advanced ==
            [self EXCEPT !.current_waveform_period =
                saturating_add(@, duration_saturating_mul_f64(delta_time, self.frequency))]
        wave == Waveform_sample(advanced.waveform, data,
                                advanced.current_waveform_period,
                                FAdd(phase_offset, advanced.modifiers.constant_phase_offset))
    IN  IF wave.panic THEN Outcome(advanced, None, "panic")
        ELSE Outcome(advanced,
                     Some(FMul(FMul(wave.v, envelope_multiplier), advanced.peak_volume)),
                     "value")

\* The phase accumulators the model follows: the early ones up to MaxPeriod,
\* and Duration::MAX, which only a late time makes the accumulator reach.
Followed(o) ==
    o.current_waveform_period <= MaxPeriod
    \/ o.current_waveform_period = DURATION_MAX

\* Operator::sample.
Operator_sample(self, data, global_time, phase_offset) ==
    LET delta_time ==
            saturating_sub(global_time, unwrap_or(self.last_global_time, global_time))
        seen == [self EXCEPT !.last_global_time = Some(global_time)]
    IN  IF seen.start_time = None THEN Outcome(seen, None, "off")
        ELSE LET start_time == unwrap_or(seen.start_time[1], global_time)
                 started == [seen EXCEPT !.start_time = Some(Some(start_time))]
             IN  IF global_time < start_time THEN Outcome(started, None, "not_started")
                 ELSE LET note_time == saturating_sub(global_time, start_time)
                          envelope_multiplier ==
                              Envelope_sample_volume(started.envelope, note_time,
                                                     started.stop_point)
                      IN  IF envelope_multiplier = None
                          THEN Operator_sample_ended(started)
                          ELSE Operator_sample_value(started, data, delta_time,
                                                     phase_offset, envelope_multiplier[1])

(* ---------------------------- Combinator ----------------------------- *)

\* One sampled child of a Combinator, or one sampled operator of a Stacker:
\* its index (from 0), the phase offset it was given and what it returned.
Sampled(i, phase_offset, result) ==
    [i |-> i, phase_offset |-> phase_offset, result |-> result]

\* The children of a Combinator are modelled as Operators.  A run is the
\* children so far, the carried Option<f64>, the calls made and whether one
\* of them panicked.
Run(synths, carry, trace, panic) ==
    [synths |-> synths, carry |-> carry, trace |-> trace, panic |-> panic]

\* Combinator::sample, Modulate, with every child given the caller's offset.
RECURSIVE Combinator_modulate_unthreaded(_, _, _, _, _)
Combinator_modulate_unthreaded(run, i, data, global_time, phase_offset) ==
    IF i > Len(run.synths) \/ run.panic THEN run
    ELSE LET out == Operator_sample(run.synths[i], data, global_time, phase_offset)
         IN  Combinator_modulate_unthreaded(
                 Run([run.synths EXCEPT ![i] = out.op], out.result,
                     Append(run.trace, Sampled(i - 1, phase_offset, out.result)),
                     out.ret = "panic"),
                 i + 1, data, global_time, phase_offset)

\* Combinator::sample, Modulate (lines 369-375), from child i on: each child
\* is sampled with the carry of the one before, None taken as 0.
RECURSIVE Combinator_modulate(_, _, _, _, _)
Combinator_modulate(run, i, data, global_time, phase_offset) ==
    IF i > Len(run.synths) \/ run.panic THEN run
    ELSE LET offset == unwrap_or(run.carry, Zero)
             out == Operator_sample(run.synths[i], data, global_time, offset)
         IN  Combinator_modulate(
                 Run([run.synths EXCEPT ![i] = out.op], out.result,
                     Append(run.trace, Sampled(i - 1, offset, out.result)),
                     out.ret = "panic"),
                 i + 1, data, global_time, phase_offset)

\* Combinator::sample, Sum, ended as soon as a child returns None.
RECURSIVE Combinator_sum_stops_at_none(_, _, _, _, _)
Combinator_sum_stops_at_none(run, i, data, global_time, phase_offset) ==
    IF i > Len(run.synths) \/ run.panic \/ run.carry = None THEN run
    ELSE LET out == Operator_sample(run.synths[i], data, global_time, phase_offset)
         IN  Combinator_sum_stops_at_none(
                 Run([run.synths EXCEPT ![i] = out.op],
                     IF out.result = None THEN None
                     ELSE Some(FAdd(run.carry[1], out.result[1])),
                     Append(run.trace, Sampled(i - 1, phase_offset, out.result)),
                     out.ret = "panic"),
                 i + 1, data, global_time, phase_offset)

\* Combinator::sample, Sum (lines 376-384), from child i on: every child is
\* sampled with the caller's offset and its result, None taken as 0, added.
RECURSIVE Combinator_sum(_, _, _, _, _)
Combinator_sum(run, i, data, global_time, phase_offset) ==
    IF i > Len(run.synths) \/ run.panic THEN run
    ELSE LET out == Operator_sample(run.synths[i], data, global_time, phase_offset)
         IN  Combinator_sum(
                 Run([run.synths EXCEPT ![i] = out.op],
                     Some(FAdd(run.carry[1], unwrap_or(out.result, Zero))),
                     Append(run.trace, Sampled(i - 1, phase_offset, out.result)),
                     out.ret = "panic"),
                 i + 1, data, global_time, phase_offset)

\* Combinator::sample: the run's carry is the result.
Combinator_sample(self, data, global_time, phase_offset) ==
    IF self.ty = "Modulate"
    THEN Combinator_modulate(Run(self.synths, Some(phase_offset), <<>>, FALSE),
                             1, data, global_time, phase_offset)
    ELSE Combinator_sum(Run(self.synths, Some(Zero), <<>>, FALSE),
                        1, data, global_time, phase_offset)

\* Combinator::play, release and cut, on every child.
Combinator_play(self, frequency, volume) ==
    [self EXCEPT !.synths =
        [i \in DOMAIN self.synths |-> Operator_play(self.synths[i], frequency, volume)]]
Combinator_release(self) ==
    [self EXCEPT !.synths =
        [i \in DOMAIN self.synths |-> Operator_release(self.synths[i])]]
Combinator_cut(self) ==
    [self EXCEPT !.synths =
        [i \in DOMAIN self.synths |-> Operator_cut(self.synths[i])]]

(* ------------------------------ Stacker ------------------------------- *)

\* StackInstruction.
Constant(value) == [ins |-> "Constant", value |-> value]
InputPhaseOffset == [ins |-> "InputPhaseOffset"]
SampleOp(i) == [ins |-> "Sample", i |-> i]
Add == [ins |-> "Add"]
Dupe == [ins |-> "Dupe"]

\* Vec::pop().unwrap_or(0.0), Vec::last(), and the stack a pop leaves.
Top(stack) == IF stack = <<>> THEN Zero ELSE stack[Len(stack)]
Pop(stack) == IF stack = <<>> THEN <<>> ELSE SubSeq(stack, 1, Len(stack) - 1)

\* Stacker::chain without the reversal: the operators in list order.
RECURSIVE chain_instructions_forward(_)
chain_instructions_forward(n) ==
    IF n = 0 THEN <<>> ELSE chain_instructions_forward(n - 1) \o <<SampleOp(n - 1)>>

\* Stacker::chain, lines 435-437: the operators are sampled from the last to
\* the first.
RECURSIVE chain_instructions(_)
chain_instructions(n) ==
    IF n = 0 THEN <<>> ELSE <<SampleOp(n - 1)>> \o chain_instructions(n - 1)
Stacker_chain(operators) ==
    [operators |-> operators,
     instructions |-> <<InputPhaseOffset>> \o chain_instructions(Len(operators))]

\* Stacker::add handing the caller's phase offset to every operator.
RECURSIVE add_instructions_with_input(_, _)
add_instructions_with_input(i, n) ==
    IF i >= n THEN <<>>
    ELSE <<InputPhaseOffset, SampleOp(i), Add>> \o add_instructions_with_input(i + 1, n)

\* Stacker::add, lines 448-452: Constant(0.0), Sample(i), Add for each operator.
RECURSIVE add_instructions(_, _)
add_instructions(i, n) ==
    IF i >= n THEN <<>>
    ELSE <<Constant(Zero), SampleOp(i), Add>> \o add_instructions(i + 1, n)
Stacker_add(operators) ==
    [operators |-> operators,
     instructions |-> IF operators = <<>> THEN <<InputPhaseOffset>>
                      ELSE add_instructions(0, Len(operators))]

\* The interpreter's state: the operators, the stack, the operators sampled
\* so far, the number of instructions executed, whether the loop was left by
\* break and whether a call panicked.
Machine(operators, stack, trace, executed, halted, panic) ==
    [operators |-> operators, stack |-> stack, trace |-> trace,
     executed |-> executed, halted |-> halted, panic |-> panic]

\* Sample(i) with no operator i, not leaving the loop.
Stacker_sample_missing_goes_on(m) ==
    [m EXCEPT !.stack = Append(Pop(m.stack), Zero), !.executed = @ + 1]

\* Stacker::sample, lines 473-477: Sample(i) with no operator i pops the
\* phase offset, pushes 0.0 and leaves the loop.
Stacker_sample_missing(m) ==
    [m EXCEPT !.stack = Append(Pop(m.stack), Zero), !.executed = @ + 1,
              !.halted = TRUE]

\* Stacker::sample, lines 469-486: one instruction.
Stacker_step(m, instruction, data, global_time, phase_offset) ==
    CASE instruction.ins = "Constant" ->
            [m EXCEPT !.stack = Append(@, instruction.value), !.executed = @ + 1]
      [] instruction.ins = "InputPhaseOffset" ->
            [m EXCEPT !.stack = Append(@, phase_offset), !.executed = @ + 1]
      [] instruction.ins = "Sample" ->
            IF instruction.i >= Len(m.operators) THEN Stacker_sample_missing(m)
            ELSE LET offset == Top(m.stack)
                     out == Operator_sample(m.operators[instruction.i + 1], data,
                                            global_time, offset)
                 IN  [m EXCEPT !.operators[instruction.i + 1] = out.op,
                               !.stack = IF out.ret = "panic" THEN Pop(@)
                                         ELSE Append(Pop(@), unwrap_or(out.result, Zero)),
                               !.trace = Append(@, Sampled(instruction.i, offset,
                                                           out.result)),
                               !.executed = @ + 1,
                               !.panic = (out.ret = "panic")]
      [] instruction.ins = "Add" ->
            LET lhs == Top(m.stack)
                rhs == Top(Pop(m.stack))
            IN  [m EXCEPT !.stack = Append(Pop(Pop(@)), FAdd(lhs, rhs)),
                          !.executed = @ + 1]
      [] instruction.ins = "Dupe" ->
            [m EXCEPT !.stack = Append(@, Top(@)), !.executed = @ + 1]

\* Stacker::sample, line 468: the instructions from pc on, in order.
RECURSIVE Stacker_run(_, _, _, _, _, _)
Stacker_run(m, instructions, pc, data, global_time, phase_offset) ==
    IF pc > Len(instructions) \/ m.halted \/ m.panic THEN m
    ELSE Stacker_run(Stacker_step(m, instructions[pc], data, global_time, phase_offset),
                     instructions, pc + 1, data, global_time, phase_offset)

\* Stacker::sample: the machine when the loop is left; line 488 pops its stack.
Stacker_sample(self, data, global_time, phase_offset) ==
    Stacker_run(Machine(self.operators, <<>>, <<>>, 0, FALSE, FALSE),
                self.instructions, 1, data, global_time, phase_offset)
Stacker_result(m) == IF m.stack = <<>> THEN None ELSE Some(Top(m.stack))

\* Stacker::play, release and cut, on every operator.
Stacker_play(self, frequency, volume) ==
    [self EXCEPT !.operators =
        [i \in DOMAIN self.operators |->
            Operator_play(self.operators[i], frequency, volume)]]
Stacker_release(self) ==
    [self EXCEPT !.operators =
        [i \in DOMAIN self.operators |-> Operator_release(self.operators[i])]]
Stacker_cut(self) ==
    [self EXCEPT !.operators =
        [i \in DOMAIN self.operators |-> Operator_cut(self.operators[i])]]

(* ------------------------ the modelled inputs ------------------------- *)

\* The SampleBank the calls are given: sample 0 loops over one period from
\* period 1/NANOS_PER_SEC on, sample 1 has a loop of no length.  A Vec holds
\* fewer than u64::MAX elements: the data is no longer than U64_MAX.
Bank ==
    (0 :> [samples_per_period |-> FInt(NANOS_PER_SEC), loop_point |-> 1,
           loop_duration |-> NANOS_PER_SEC,
           pcm_data |-> <<F(1, 4), F(1, 2), F(-1, 2)>>])
    @@ (1 :> [samples_per_period |-> One, loop_point |-> 0, loop_duration |-> 0,
              pcm_data |-> <<One>>])

Env(attack_time, halving_rate, release_time) ==
    [attack_time |-> attack_time, halving_rate |-> halving_rate,
     release_time |-> release_time]
Mods(frequency_multiplier, volume_multiplier, constant_phase_offset) ==
    [frequency_multiplier |-> frequency_multiplier,
     volume_multiplier |-> volume_multiplier,
     constant_phase_offset |-> constant_phase_offset]
\* OperatorModifiers::default.
DefaultMods == Mods(One, One, Zero)

\* The operators the model builds.
OperatorConfigs ==
    { Operator_new([ty |-> "Sawtooth"], Env(0, Zero, 1), DefaultMods),
      Operator_new([ty |-> "Triangle"], Env(2, FInt(NANOS_PER_SEC), 0),
                   Mods(FInt(2), FInt(2), F(1, 2))),
      Operator_new([ty |-> "PCM", sample_id |-> 0], Env(1, Zero, 2), DefaultMods),
      Operator_new([ty |-> "PCM", sample_id |-> 1], Env(0, Zero, 1), DefaultMods),
      Operator_new([ty |-> "Thin", base |-> [ty |-> "Sawtooth"],
                    waveform_active_percent |-> Zero], Env(0, Zero, 0), DefaultMods),
      Operator_new([ty |-> "Absolute",
                    base |-> [ty |-> "Cut", base |-> [ty |-> "InvertedSawtooth"],
                              waveform_active_percent |-> F(1, 2)]],
                   Env(0, Zero, 1), Mods(One, F(1, 2), Zero)) }

\* What the callers pass.
GlobalTimes == 0..MaxTime
PhaseOffsets == {Zero, F(-1, 2)}
\* The <<frequency, volume>> pairs of the play calls.
PlayArgs == {<<One, One>>, <<FInt(2), F(1, 2)>>}

(* ------------------------------- state -------------------------------- *)

VARIABLES
    op,         \* the Operator driven alone
    stacker,    \* a Stacker: [operators, instructions]
    combinator, \* a Combinator over the same operators: [synths, ty]
    bank,       \* the SampleBank handle the host holds: None is the null handle
    last        \* the last call made and what it returned

vars == <<op, stacker, combinator, bank, last>>

Call(call, global_time, phase_offset, frequency, volume, result, ret) ==
    [call |-> call, global_time |-> global_time, phase_offset |-> phase_offset,
     frequency |-> frequency, volume |-> volume, result |-> result, ret |-> ret]
NoCall == Call("new", 0, Zero, Zero, Zero, None, "")

(* --------------------- one Operator, driven alone --------------------- *)

Init ==
    /\ op \in OperatorConfigs
    /\ stacker = [operators |-> <<>>, instructions |-> <<>>]
    /\ combinator = [synths |-> <<>>, ty |-> "Sum"]
    /\ bank = Some(Bank)
    /\ last = NoCall

Sample(global_time, phase_offset) ==
    LET out == Operator_sample(op, Bank, global_time, phase_offset)
    IN  /\ last.ret # "panic"
        /\ Followed(out.op)
        /\ op' = out.op
        /\ last' = Call("sample", global_time, phase_offset, Zero, Zero,
                        out.result, out.ret)
        /\ UNCHANGED <<stacker, combinator, bank>>

Play(frequency, volume) ==
    /\ last.ret # "panic"
    /\ op' = Operator_play(op, frequency, volume)
    /\ last' = Call("play", 0, Zero, frequency, volume, None, "")
    /\ UNCHANGED <<stacker, combinator, bank>>

Release ==
    /\ last.ret # "panic"
    /\ op' = Operator_release(op)
    /\ last' = Call("release", 0, Zero, Zero, Zero, None, "")
    /\ UNCHANGED <<stacker, combinator, bank>>

Cut ==
    /\ last.ret # "panic"
    /\ op' = Operator_cut(op)
    /\ last' = Call("cut", 0, Zero, Zero, Zero, None, "")
    /\ UNCHANGED <<stacker, combinator, bank>>

Next ==
    \/ \E global_time \in GlobalTimes, phase_offset \in PhaseOffsets :
          Sample(global_time, phase_offset)
    \/ \E args \in PlayArgs : Play(args[1], args[2])
    \/ Release
    \/ Cut

Spec == Init /\ [][Next]_vars

(* ------------------- claims about one Operator ------------------------ *)

IsStarted(o) == o.start_time # Off /\ o.start_time # Armed
StartedAt(o) == o.start_time[1][1]

\* C3 (as claimed): once release() has recorded stop_point during a note that
\* started at T, a sample call at a global time greater than
\* stop_point + release_time returns None.
C3_SampleAfterReleaseEnds ==
    ( /\ last.call = "sample"
      /\ last.ret # "panic"
      /\ IsStarted(op)
      /\ op.stop_point # None
      /\ StartedAt(op) <= op.stop_point[1]
      /\ last.global_time > op.stop_point[1] + op.envelope.release_time )
    => last.result = None

\* C4 (as claimed): play leaves the Operator Armed, whatever came before.
C4_PlayArms ==
    last.call = "play" =>
        /\ op.start_time = Armed
        /\ op.stop_point = None
        /\ op.peak_volume = FMul(last.volume, op.modifiers.volume_multiplier)
        /\ op.frequency = FMul(last.frequency, op.modifiers.frequency_multiplier)

\* C4 (amended): play leaves start_time holding the last-seen global time:
\* Armed when no sample call was ever made, Started(last_global_time)
\* otherwise; stop_point is cleared and peak_volume and frequency are the
\* arguments times their multipliers.  An Armed operator becomes Started, at
\* the call's global time, at the next sample call.
C4_PlayStartsAtLastSeenTime ==
    /\ [][last'.call = "play" =>
            /\ op'.start_time = (IF op.last_global_time = None THEN Armed
                                 ELSE Started(op.last_global_time[1]))
            /\ op'.stop_point = None
            /\ op'.peak_volume = FMul(last'.volume, op.modifiers.volume_multiplier)
            /\ op'.frequency = FMul(last'.frequency, op.modifiers.frequency_multiplier)
         ]_vars
    /\ [][(op.start_time = Armed /\ last'.call = "sample") =>
            op'.start_time = Started(last'.global_time)]_vars

\* C4 witness: a play call made after a sample call, which starts the note.
C4_Witness ==
    /\ last.call = "play"
    /\ op.last_global_time # None
    /\ IsStarted(op)
    /\ op.peak_volume # Zero

\* C5: cut() leaves the Operator Off with stop_point cleared, and an Off
\* operator stays Off and returns None from every sample call until play.
C5_CutSilencesUntilPlay ==
    /\ [][last'.call = "cut" =>
            (op'.start_time = Off /\ op'.stop_point = None)]_vars
    /\ [][(op.start_time = Off /\ last'.call # "play") =>
            /\ op'.start_time = Off
            /\ last'.call = "sample" =>
                  (last'.result = None /\ last'.ret = "off")]_vars

\* C5 witness: a sample call on an operator that was played and then cut.
C5_Witness ==
    /\ last.call = "sample"
    /\ last.ret = "off"
    /\ op.frequency # Zero
    /\ op.start_time = Off

\* C6: a sample call that returns None because the envelope has finished
\* leaves start_time Started(T) and stop_point set, and so do the sample and
\* release calls that follow: only cut or play changes them.
C6_EndedIsNotOff ==
    /\ [][last'.ret = "ended" =>
            /\ IsStarted(op')
            /\ op'.stop_point # None
            /\ op'.start_time = op.start_time
            /\ op'.stop_point = op.stop_point]_vars
    /\ [][(IsStarted(op) /\ op.stop_point # None
            /\ last'.call \in {"sample", "release"}) =>
            (op'.start_time = op.start_time /\ op'.stop_point = op.stop_point)]_vars

\* C6 witness: a sample call that found the envelope finished.
C6_Witness ==
    /\ last.call = "sample"
    /\ last.ret = "ended"
    /\ last.result = None

\* The zero-valued parameters of C10.
RECURSIVE ThinOfNothing(_)
ThinOfNothing(waveform) ==
    \/ waveform.ty = "Thin" /\ waveform.waveform_active_percent = Zero
    \/ waveform.ty \in {"Thin", "Cut", "Absolute"} /\ ThinOfNothing(waveform.base)
LoopOfNoLength(waveform) ==
    /\ waveform.ty = "PCM"
    /\ waveform.sample_id \in DOMAIN Bank
    /\ Bank[waveform.sample_id].loop_duration = 0
ZeroValuedParameter(o) ==
    \/ o.envelope.attack_time = 0
    \/ o.envelope.release_time = 0
    \/ LoopOfNoLength(o.waveform)
    \/ ThinOfNothing(o.waveform)

\* C10 (as claimed): a sample call on an operator with a zero-valued
\* parameter completes: it does not panic.
C10_ZeroParametersNeverFault ==
    (last.call = "sample" /\ ZeroValuedParameter(op)) => last.ret # "panic"

(* ------------- a Stacker and a Combinator, driven together ------------ *)

\* The operators a Stacker or a Combinator is built over.
CombConfigs ==
    << Operator_new([ty |-> "Sawtooth"], Env(0, Zero, 2), DefaultMods),
       Operator_new([ty |-> "Triangle"], Env(2, FInt(NANOS_PER_SEC), 0),
                    Mods(FInt(2), FInt(2), F(1, 2))) >>
\* The lists of up to MaxOps operators that alternate between the two, from
\* either of them on.
OperatorLists ==
    {[i \in 1..n |-> CombConfigs[((i + k) % 2) + 1]] : n \in 0..MaxOps, k \in 0..1}

\* The global times of the sample calls on the pair, passed in any order.
PairTimes == {0, NANOS_PER_SEC - 1}

\* The <<frequency, volume>> pair of the play calls on the pair.
PairPlayArgs == {<<One, F(1, 2)>>}

\* Instruction lists written by hand; the first names an operator no list has.
Programs ==
    { <<InputPhaseOffset, Dupe, SampleOp(0), Add, SampleOp(MaxOps), SampleOp(1),
        Constant(One)>>,
      <<SampleOp(1), SampleOp(0)>> }

\* The call record of the pair: both results, the machine the Stacker ended
\* in and the children the Combinator sampled.
PairCall(call, global_time, phase_offset, machine, run) ==
    [call |-> call, global_time |-> global_time, phase_offset |-> phase_offset,
     stacker_result |-> Stacker_result(machine), machine |-> machine,
     combinator_result |-> run.carry, trace |-> run.trace,
     ret |-> IF machine.panic \/ run.panic THEN "panic" ELSE ""]
NoMachine == Machine(<<>>, <<>>, <<>>, 0, FALSE, FALSE)
NoRun == Run(<<>>, None, <<>>, FALSE)

InitPair ==
    /\ op = Operator_new([ty |-> "Sawtooth"], Env(0, Zero, 0), DefaultMods)
    /\ \E operators \in OperatorLists :
          \/ /\ stacker = Stacker_chain(operators)
             /\ combinator = [synths |-> operators, ty |-> "Modulate"]
          \/ /\ stacker = Stacker_add(operators)
             /\ combinator = [synths |-> operators, ty |-> "Sum"]
          \/ \E instructions \in Programs :
                /\ stacker = [operators |-> operators, instructions |-> instructions]
                /\ combinator = [synths |-> operators,
                                 ty |-> IF instructions[1] = InputPhaseOffset
                                        THEN "Modulate" ELSE "Sum"]
    /\ bank = Some(Bank)
    /\ last = PairCall("new", 0, Zero, NoMachine, NoRun)

PairSample(global_time, phase_offset) ==
    \E machine \in {Stacker_sample(stacker, Bank, global_time, phase_offset)},
       run \in {Combinator_sample(combinator, Bank, global_time, phase_offset)} :
        /\ last.ret # "panic"
        /\ \A i \in 1..Len(machine.operators) : Followed(machine.operators[i])
        /\ \A i \in 1..Len(run.synths) : Followed(run.synths[i])
        /\ stacker' = [stacker EXCEPT !.operators = machine.operators]
        /\ combinator' = [combinator EXCEPT !.synths = run.synths]
        /\ last' = PairCall("sample", global_time, phase_offset, machine, run)
        /\ UNCHANGED <<op, bank>>

PairPlay(frequency, volume) ==
    /\ last.ret # "panic"
    /\ stacker' = Stacker_play(stacker, frequency, volume)
    /\ combinator' = Combinator_play(combinator, frequency, volume)
    /\ last' = PairCall("play", 0, Zero, NoMachine, NoRun)
    /\ UNCHANGED <<op, bank>>

PairRelease ==
    /\ last.ret # "panic"
    /\ stacker' = Stacker_release(stacker)
    /\ combinator' = Combinator_release(combinator)
    /\ last' = PairCall("release", 0, Zero, NoMachine, NoRun)
    /\ UNCHANGED <<op, bank>>

PairCut ==
    /\ last.ret # "panic"
    /\ stacker' = Stacker_cut(stacker)
    /\ combinator' = Combinator_cut(combinator)
    /\ last' = PairCall("cut", 0, Zero, NoMachine, NoRun)
    /\ UNCHANGED <<op, bank>>

NextPair ==
    \/ \E global_time \in PairTimes, phase_offset \in PhaseOffsets :
          PairSample(global_time, phase_offset)
    \/ \E args \in PairPlayArgs : PairPlay(args[1], args[2])
    \/ PairRelease
    \/ PairCut

SpecPair == InitPair /\ [][NextPair]_vars

(* ------------- claims about the Stacker and the Combinator ------------ *)

Reverse(seq) == [k \in 1..Len(seq) |-> seq[Len(seq) + 1 - k]]

\* The pair was built by Stacker::chain and as a Modulate Combinator.
ChainPair ==
    /\ stacker.instructions = Stacker_chain(stacker.operators).instructions
    /\ combinator.ty = "Modulate"
\* The pair was built by Stacker::add and as a Sum Combinator.
AddPair ==
    /\ stacker.instructions = Stacker_add(stacker.operators).instructions
    /\ combinator.ty = "Sum"

\* C1 (as claimed): Stacker::chain([A,B]).sample returns what
\* Combinator{Modulate,[A,B]}.sample returns from the same states and inputs,
\* sampling the operators in the same order with the same phase offsets.
C1_ChainEqualsModulate ==
    ( /\ last.call = "sample"
      /\ last.ret # "panic"
      /\ ChainPair
      /\ Len(stacker.operators) = 2 )
    => /\ last.stacker_result = last.combinator_result
       /\ last.machine.trace = last.trace

\* C1 (amended): Stacker::chain([A,B]).sample samples B first, with the
\* caller's phase offset, then A with B's output (0 for None), and returns
\* Some of A's output, Some(0) when A returned None: it is
\* Combinator{Modulate,[B,A]}.sample with None replaced by Some(0).
C1_ChainIsReversedModulate ==
    [][( /\ last'.call = "sample"
         /\ last'.ret # "panic"
         /\ ChainPair
         /\ Len(stacker.operators) = 2 )
       => LET reversed ==
                  Combinator_sample([synths |-> Reverse(stacker.operators),
                                     ty |-> "Modulate"],
                                    Bank, last'.global_time, last'.phase_offset)
              trace == last'.machine.trace
          IN  /\ last'.stacker_result = Some(unwrap_or(reversed.carry, Zero))
              /\ stacker'.operators = Reverse(reversed.synths)
              /\ Len(trace) = 2
              /\ \A k \in 1..2 :
                    trace[k] = [reversed.trace[k] EXCEPT !.i = 1 - @]
      ]_vars

\* C1 witness: a chain of two operators whose second operator, sampled first,
\* returned a value, and whose result is not what the Modulate Combinator
\* over the same list returned.
C1_Witness ==
    /\ last.call = "sample"
    /\ ChainPair
    /\ Len(last.machine.trace) = 2
    /\ last.machine.trace[1].i = 1
    /\ last.machine.trace[1].result \notin {None, Some(Zero)}
    /\ last.stacker_result # last.combinator_result
    /\ last.combinator_result # None

\* C2 (as claimed): Stacker::add(ops).sample returns what
\* Combinator{Sum,ops}.sample returns, for every list and every phase offset.
C2_AddEqualsSum ==
    (last.call = "sample" /\ last.ret # "panic" /\ AddPair)
    => last.stacker_result = last.combinator_result

\* C2 (amended): for a non-empty list Stacker::add(ops).sample(data,t,p)
\* returns what Combinator{Sum,ops}.sample(data,t,0) returns: every operator
\* is sampled with phase offset 0, whatever p is; for the empty list it
\* returns Some(p).
C2_AddIsSumAtZeroOffset ==
    [][(last'.call = "sample" /\ last'.ret # "panic" /\ AddPair)
       => IF stacker.operators = <<>>
          THEN last'.stacker_result = Some(last'.phase_offset)
          ELSE LET sum == Combinator_sample([synths |-> stacker.operators,
                                             ty |-> "Sum"],
                                            Bank, last'.global_time, Zero)
               IN  /\ last'.stacker_result = sum.carry
                   /\ stacker'.operators = sum.synths
                   /\ last'.machine.trace = sum.trace
      ]_vars

\* C2 witness: a sum of two operators, sampled with a phase offset other
\* than 0, that differs from what the Sum Combinator returned.
C2_Witness ==
    /\ last.call = "sample"
    /\ AddPair
    /\ Len(stacker.operators) = 2
    /\ last.phase_offset # Zero
    /\ last.stacker_result # None
    /\ last.stacker_result # last.combinator_result

\* The sum of what each of synths returns when sampled alone, None taken as 0.
RECURSIVE SumOfChildren(_, _, _)
SumOfChildren(synths, global_time, phase_offset) ==
    IF synths = <<>> THEN Zero
    ELSE FAdd(SumOfChildren(Pop(synths), global_time, phase_offset),
              unwrap_or(Operator_sample(Top(synths), Bank, global_time,
                                        phase_offset).result, Zero))

\* C7: a Sum Combinator's sample never returns None; it returns the sum of
\* what each child returns when sampled with the same inputs, None as 0, and
\* leaves each child as that call leaves it.
C7_SumOfChildren ==
    [][(last'.call = "sample" /\ last'.ret # "panic" /\ combinator.ty = "Sum")
       => /\ last'.combinator_result # None
          /\ last'.combinator_result =
                Some(SumOfChildren(combinator.synths, last'.global_time,
                                   last'.phase_offset))
          /\ \A k \in 1..Len(combinator.synths) :
                combinator'.synths[k] =
                    Operator_sample(combinator.synths[k], Bank, last'.global_time,
                                    last'.phase_offset).op
      ]_vars

\* C7 witness: a Sum of two children, the first of which returned None and
\* the second a value other than 0.
C7_Witness ==
    /\ last.call = "sample"
    /\ combinator.ty = "Sum"
    /\ Len(last.trace) = 2
    /\ last.trace[1].result = None
    /\ last.trace[2].result \notin {None, Some(Zero)}
    /\ last.combinator_result = last.trace[2].result

\* C8: a Modulate Combinator with at least one child samples every child in
\* order, the first with the caller's phase offset and each later one with
\* the output of the child before it (0 for None), and returns the last
\* child's result.
C8_ModulateReturnsLastChild ==
    [][( /\ last'.call = "sample"
         /\ last'.ret # "panic"
         /\ combinator.ty = "Modulate"
         /\ combinator.synths # <<>> )
       => LET n == Len(combinator.synths)
              trace == last'.trace
          IN  /\ Len(trace) = n
              /\ \A k \in 1..n :
                    /\ trace[k].i = k - 1
                    /\ trace[k].phase_offset =
                          (IF k = 1 THEN last'.phase_offset
                           ELSE unwrap_or(trace[k - 1].result, Zero))
                    /\ trace[k].result =
                          Operator_sample(combinator.synths[k], Bank,
                                          last'.global_time,
                                          trace[k].phase_offset).result
              /\ last'.combinator_result = trace[n].result
      ]_vars

\* C8 witness: a Modulate of two children that returned None because its
\* last child did, although its first child returned a value.
C8_Witness ==
    /\ last.call = "sample"
    /\ combinator.ty = "Modulate"
    /\ Len(last.trace) = 2
    /\ last.trace[1].result \notin {None, Some(Zero)}
    /\ last.trace[2].result = None
    /\ last.combinator_result = None

\* The place of the first Sample instruction that names no operator, 0 when
\* there is none.
Missing(self) ==
    {k \in 1..Len(self.instructions) :
        /\ self.instructions[k].ins = "Sample"
        /\ self.instructions[k].i >= Len(self.operators)}
FirstMissing(self) ==
    IF Missing(self) = {} THEN 0
    ELSE CHOOSE k \in Missing(self) : \A j \in Missing(self) : k <= j

\* C9: when Stacker.sample reaches a Sample(i) that names no operator, it
\* pops one value, pushes 0 and executes no later instruction: the operators
\* are as the instructions before it left them, and the result is Some(0).
C9_MissingOperatorHalts ==
    [][(last'.call = "sample" /\ last'.ret # "panic" /\ FirstMissing(stacker) # 0)
       => LET k == FirstMissing(stacker)
              before ==
                  Stacker_sample([stacker EXCEPT !.instructions = SubSeq(@, 1, k - 1)],
                                 Bank, last'.global_time, last'.phase_offset)
          IN  /\ last'.stacker_result = Some(Zero)
              /\ last'.machine.executed = k
              /\ last'.machine.stack = Append(Pop(before.stack), Zero)
              /\ last'.machine.trace = before.trace
              /\ stacker'.operators = before.operators
      ]_vars

\* C9 witness: a run left at its fifth instruction, a Sample of a missing
\* operator, by which the operator named by the sixth was never sampled.
C9_Witness ==
    /\ last.call = "sample"
    /\ last.machine.halted
    /\ last.machine.executed = 5
    /\ Len(stacker.instructions) > 5
    /\ stacker.instructions[6] = SampleOp(1)
    /\ Len(stacker.operators) >= 2
    /\ stacker.operators[1].last_global_time # None
    /\ stacker.operators[2].last_global_time = None
    /\ last.stacker_result = Some(Zero)

(* -------------------- the boundary layer (ffi.rs) --------------------- *)

\* PomResult.
Success == 0
InvalidInput == 1

\* PomDuration: the (seconds, nanoseconds) pair a time crosses the boundary as.
PomDuration(seconds, nanoseconds) ==
    [seconds |-> seconds, nanoseconds |-> nanoseconds]

\* u64::checked_add.
checked_add(a, b) == IF a + b > U64_MAX THEN None ELSE Some(a + b)
\* Duration::new, called with nanos < NANOS_PER_SEC: nothing is carried.
Duration_new(secs, nanos) == secs * NANOS_PER_SEC + nanos
\* Duration::from_secs.
Duration_from_secs(secs) == secs * NANOS_PER_SEC
\* Duration + Duration, as += has it: a panic when the sum is past Duration::MAX.
Duration_add(lhs, rhs) ==
    IF lhs + rhs > DURATION_MAX THEN Panic ELSE Ok(lhs + rhs)
\* Duration::div_f64.
Duration_div_f64(self, rhs) == from_secs_f64(FDiv(as_secs_f64(self), rhs))

\* PomDuration::to_rust losing the whole seconds its nanoseconds field holds.
PomDuration_to_rust_uncarried(self) ==
    Duration_new(self.seconds, self.nanoseconds % NANOS_PER_SEC)

\* PomDuration::to_rust.
PomDuration_to_rust(self) ==
    IF checked_add(self.seconds, self.nanoseconds \div NANOS_PER_SEC) = None
    THEN DURATION_MAX
    ELSE Duration_new(self.seconds + self.nanoseconds \div NANOS_PER_SEC,
                      self.nanoseconds % NANOS_PER_SEC)

\* impl From<Duration> for PomDuration.
PomDuration_from(value) == PomDuration(as_secs(value), subsec_nanos(value))

\* PomWaveformData: the three readings of the union's bytes.
PomWaveformData(duty_cycle, sample_id, constant_offset) ==
    [duty_cycle |-> duty_cycle, sample_id |-> sample_id,
     constant_offset |-> constant_offset]

\* PomWaveform::to_rust: None for a tag that names no variant.
PomWaveform_to_rust(self) ==
    CASE self.ty = 0 -> Some([ty |-> "Sine"])
      [] self.ty = 1 -> Some([ty |-> "Pulse", duty_cycle |-> self.data.duty_cycle])
      [] self.ty = 2 -> Some([ty |-> "Triangle"])
      [] self.ty = 3 -> Some([ty |-> "Sawtooth"])
      [] self.ty = 4 -> Some([ty |-> "InvertedSawtooth"])
      [] self.ty = 5 -> Some([ty |-> "PCM", sample_id |-> self.data.sample_id])
      [] self.ty = 6 -> Some([ty |-> "Constant", value |-> self.data.constant_offset])
      [] OTHER -> None

\* PomEnvelope::to_rust and PomModifiers::to_rust.
PomEnvelope_to_rust(self) ==
    Env(PomDuration_to_rust(self.attack_time), self.halving_rate,
        PomDuration_to_rust(self.release_time))
PomModifiers_to_rust(self) ==
    Mods(self.frequency_multiplier, self.volume_multiplier,
         self.constant_phase_offset)

\* What a call that writes a handle gives back: its result code and the
\* value behind the handle written to *output, None when it was not written.
Created(code, output) == [code |-> code, output |-> output]

\* pom_create_operator.
pom_create_operator(settings) ==
    LET waveform == PomWaveform_to_rust(settings.waveform)
    IN  IF waveform # None
        THEN Created(Success,
                     Some(Operator_new(waveform[1],
                                       PomEnvelope_to_rust(settings.envelope),
                                       PomModifiers_to_rust(settings.modifiers))))
        ELSE Created(InvalidInput, None)

\* pom_create_modulator and pom_create_summation: clones of the two synths.
pom_create_modulator(modulator, carrier) ==
    Created(Success, Some([synths |-> <<modulator, carrier>>, ty |-> "Modulate"]))
pom_create_summation(a, b) ==
    Created(Success, Some([synths |-> <<a, b>>, ty |-> "Sum"]))

\* pom_create_combinator: synths is the array, of which length are cloned.
pom_create_combinator(synths, length, ty) ==
    CASE ty = 0 ->
            Created(Success, Some([synths |-> SubSeq(synths, 1, length), ty |-> "Sum"]))
      [] ty = 1 ->
            Created(Success,
                    Some([synths |-> SubSeq(synths, 1, length), ty |-> "Modulate"]))
      [] OTHER -> Created(InvalidInput, None)

\* pom_clone_synth.
pom_clone_synth(source) == Created(Success, Some(source))

\* EMPTY_PCM_BANK and get_pcm_bank_from_ffi: the null handle is the empty bank.
EMPTY_PCM_BANK == <<>>
get_pcm_bank_from_ffi(handle) == unwrap_or(handle, EMPTY_PCM_BANK)

\* pom_create_pcm_bank and pom_clone_pcm_bank.
pom_create_pcm_bank == Created(Success, Some(EMPTY_PCM_BANK))
pom_clone_pcm_bank(handle) == Created(Success, Some(get_pcm_bank_from_ffi(handle)))

\* pom_sample: the synth after the call and the f64 returned, None as 0.0.
pom_sample(synth, handle, global_time, input_phase_offset) ==
    LET out == Operator_sample(synth, get_pcm_bank_from_ffi(handle),
                               PomDuration_to_rust(global_time), input_phase_offset)
    IN  [synth |-> out.op, value |-> unwrap_or(out.result, Zero),
         panic |-> out.ret = "panic"]

\* pom_frequency_to_interval: the Duration computed and the pair returned.
pom_frequency_to_interval(frequency) ==
    LET duration == Duration_div_f64(Duration_from_secs(1), frequency)
    IN  IF duration.panic THEN Panic
        ELSE Ok([duration |-> duration.v, interval |-> PomDuration_from(duration.v)])

\* f64::round (half away from zero) and f64::clamp.
FRound(x) ==
    IF ~IsFinite(x) THEN x
    ELSE FInt(Sign(x[1]) * ((2 * Abs(x[1]) + x[2]) \div (2 * x[2])))
FClamp(x, min, max) ==
    IF IsNaN(x) THEN NaN
    ELSE IF FLt(x, min) THEN min
    ELSE IF FGt(x, max) THEN max
    ELSE x

\* quantise.
quantise(x, input_min, input_max, output_min, output_max) ==
    FClamp(FRound(FAdd(FMul(FDiv(FSub(x, input_min), FSub(input_max, input_min)),
                            FSub(output_max, output_min)),
                       output_min)),
           output_min, output_max)
\* map_normalise.
map_normalise(x, min, max) ==
    FSub(FDiv(FMul(FInt(2), FSub(x, min)), FSub(max, min)), One)

\* get_sample_format: Err(InvalidInput) for a code that names no format.
get_sample_format(sample_format) ==
    CASE sample_format = 0 -> [err |-> FALSE, format |-> "U8", code |-> Success]
      [] sample_format = 1 -> [err |-> FALSE, format |-> "I16", code |-> Success]
      [] sample_format = 2 -> [err |-> FALSE, format |-> "I32", code |-> Success]
      [] sample_format = 3 -> [err |-> FALSE, format |-> "F32", code |-> Success]
      [] sample_format = 4 -> [err |-> FALSE, format |-> "F64", code |-> Success]
      [] OTHER -> [err |-> TRUE, format |-> "", code |-> InvalidInput]

\* The MIN and MAX of an integer sample format.
FormatMin(format) ==
    CASE format = "U8" -> FInt(0)
      [] format = "I16" -> FInt(-32768)
      [] format = "I32" -> FInt(-2147483647 - 1)
FormatMax(format) ==
    CASE format = "U8" -> FInt(255)
      [] format = "I16" -> FInt(32767)
      [] format = "I32" -> FInt(2147483647)

\* The whole number e with 2^e <= n/d < 2^(e+1), for n > 0 and d > 0.
RECURSIVE Log2Floor(_, _)
Log2Floor(n, d) ==
    IF n < d THEN Log2Floor(2 * n, d) - 1
    ELSE IF n - d < d THEN 0
    ELSE Log2Floor(n \div 2, d) + 1
\* <<q, r>> with n * 2^k = q * d + r and 0 <= r < d, by long division.
RECURSIVE ShiftDiv(_, _, _)
ShiftDiv(n, d, k) ==
    IF k = 0 THEN <<n \div d, n % d>>
    ELSE LET half == ShiftDiv(n, d, k - 1)
         IN  <<2 * half[1] + (2 * half[2]) \div d, (2 * half[2]) % d>>
\* n/d, for n > 0 and d > 0, as the nearest number of 24 significant bits,
\* a tie to the even one.
F32Nearest(n, d) ==
    LET e == Log2Floor(n, d)
    IN  IF e >= 23
        THEN FInt(RoundHalfEven(n, d * Pow2(e - 23)) * Pow2(e - 23))
        ELSE LET qr == ShiftDiv(n, d, 23 - e)
                 up == 2 * qr[2] > d \/ (2 * qr[2] = d /\ qr[1] % 2 = 1)
             IN  F(qr[1] + (IF up THEN 1 ELSE 0), Pow2(23 - e))
\* `as f32` of an f64, read back as an f64: the nearest f32, whose mantissa
\* has 24 bits.  Zero, the infinities and NaN are kept.
as_f32(x) ==
    IF ~IsFinite(x) \/ x[1] = 0 THEN x
    ELSE IF x[1] < 0 THEN FNeg(F32Nearest(-x[1], x[2]))
    ELSE F32Nearest(x[1], x[2])

\* quantise with the bounds of an i32 as the output range.  The span of the
\* range, 2^32 - 1, is past the integers of the model: with t = n/d the place
\* of x in the input range, the value t * (2^32 - 1) - 2^31 is computed as
\* 2^31 * (2n - d)/d - n/d, the product by long division, then rounded half
\* away from zero.  The two ends of the range are what clamp gives.
quantise_i32(x, input_min, input_max) ==
    LET t == FDiv(FSub(x, input_min), FSub(input_max, input_min))
    IN  IF IsNaN(t) THEN NaN
        ELSE IF ~FLt(t, One) THEN FormatMax("I32")
        ELSE IF ~FGt(t, Zero) THEN FormatMin("I32")
        ELSE LET a == 2 * t[1] - t[2]
                 qr == ShiftDiv(Abs(a), t[2], 31)
                 m == Sign(a) * qr[2] - t[1]
                 floor == Sign(a) * qr[1] + m \div t[2]
                 up == IF floor >= 0 THEN 2 * (m % t[2]) >= t[2]
                       ELSE 2 * (m % t[2]) > t[2]
             IN  FInt(floor + (IF up THEN 1 ELSE 0))
\* map_normalise with the bounds of an i32: 2 * (x - MIN) / (MAX - MIN) - 1 is
\* (2x + 1) / (2^32 - 1), and 2^32 - 1 is 3 * 5 * 17 * 257 * 65537.  Here for
\* the two ends of the range and for the x between them whose value has a
\* denominator within the model's integers.
map_normalise_i32(x) ==
    IF x = FormatMax("I32") THEN One
    ELSE IF x = FormatMin("I32") THEN FNeg(One)
    ELSE LET a == 2 * x[1] + 1
             Part(p) == IF a % p = 0 THEN <<p, 1>> ELSE <<1, p>>
             parts == <<Part(3), Part(5), Part(17), Part(257), Part(65537)>>
             g == parts[1][1] * parts[2][1] * parts[3][1] * parts[4][1] * parts[5][1]
         IN  CASE g >= 3 ->
                 <<a \div g,
                   parts[1][2] * parts[2][2] * parts[3][2] * parts[4][2] * parts[5][2]>>

\* pom_fill, lines 372-403: one f64 as the buffer's element; an `as` cast of
\* a NaN to an integer gives 0, and an f32 element is the f64 narrowed.
Encode(format, x) ==
    IF format = "F64" THEN x
    ELSE IF format = "F32" THEN as_f32(x)
    ELSE LET q == IF format = "I32" THEN quantise_i32(x, FNeg(One), One)
                  ELSE quantise(x, FNeg(One), One, FormatMin(format),
                                FormatMax(format))
         IN  IF IsNaN(q) THEN FInt(0) ELSE q
\* pom_add_pcm_sample, lines 459-488: one element of the buffer as an f64;
\* an f32 element widens to the f64 of the same value.
Decode(format, x) ==
    IF format \in {"F32", "F64"} THEN x
    ELSE IF format = "I32" THEN map_normalise_i32(x)
    ELSE map_normalise(x, FormatMin(format), FormatMax(format))

\* A batch fill under way: the synth, the closure's `time`, the elements
\* written, the global times sampled and, once it panicked, why.
Filling(synth, time, data, times, fault) ==
    [synth |-> synth, time |-> time, data |-> data, times |-> times,
     fault |-> fault]

\* pom_fill, lines 361-371 and the loops' bodies: the closure `get` samples
\* the synth, then advances `time` by the interval with +=, and the loop
\* stores what it returned.
pom_fill_get(fill, samples, interval, format, constant_phase_offset) ==
    LET out == Operator_sample(fill.synth, samples, fill.time, constant_phase_offset)
        advanced == Duration_add(fill.time, interval)
        sampled == [fill EXCEPT !.synth = out.op, !.times = Append(@, fill.time)]
    IN  IF out.ret = "panic" THEN [sampled EXCEPT !.fault = "sample"]
        ELSE IF advanced.panic
        THEN [sampled EXCEPT !.fault = "overflow when adding durations"]
        ELSE [sampled EXCEPT !.time = advanced.v,
                             !.data = Append(@, Encode(format,
                                                       unwrap_or(out.result, Zero)))]

\* pom_fill, the loop `for i in 0..length`, from element i on.
RECURSIVE pom_fill_loop(_, _, _, _, _, _, _)
pom_fill_loop(fill, i, length, samples, interval, format, constant_phase_offset) ==
    IF i >= length \/ fill.fault # "" THEN fill
    ELSE pom_fill_loop(pom_fill_get(fill, samples, interval, format,
                                    constant_phase_offset),
                       i + 1, length, samples, interval, format,
                       constant_phase_offset)

\* pom_fill: the result code (returned unless the call panicked) and the fill.
pom_fill(synth, handle, global_time, sample_interval, length, sample_format, constant_phase_offset) ==
    LET time == PomDuration_to_rust(global_time)
        interval == PomDuration_to_rust(sample_interval)
        sample_format_ == get_sample_format(sample_format)
    IN  IF sample_format_.err
        THEN [code |-> sample_format_.code,
              fill |-> Filling(synth, time, <<>>, <<>>, "")]
        ELSE [code |-> Success,
              fill |-> pom_fill_loop(Filling(synth, time, <<>>, <<>>, ""), 0, length,
                                     get_pcm_bank_from_ffi(handle), interval,
                                     sample_format_.format, constant_phase_offset)]

\* pom_add_pcm_sample: the bank after the call and the result code.
pom_add_pcm_sample(samples, pcm_data, pcm_length, pcm_sample_format, identifier, pcm_sample_settings) ==
    LET sample_format == get_sample_format(pcm_sample_format)
    IN  IF sample_format.err
        THEN [samples |-> samples, code |-> sample_format.code]
        ELSE LET converted_data ==
                     [i \in 1..pcm_length |-> Decode(sample_format.format, pcm_data[i])]
                 sample ==
                     [samples_per_period |-> pcm_sample_settings.samples_per_period,
                      loop_point |-> PomDuration_to_rust(pcm_sample_settings.loop_point),
                      loop_duration |->
                          PomDuration_to_rust(pcm_sample_settings.loop_duration),
                      pcm_data |-> converted_data]
             IN  [samples |-> (identifier :> sample) @@ samples, code |-> Success]

\* pom_play, pom_release and pom_cut.
pom_play(synth, frequency, volume) == Operator_play(synth, frequency, volume)
pom_release(synth) == Operator_release(synth)
pom_cut(synth) == Operator_cut(synth)

\* pom_destroy_synth and pom_destroy_pcm_bank: the Box behind the handle is
\* dropped, and nothing is left for the host to pass on.
pom_destroy_synth(pom) == None
pom_destroy_pcm_bank(handle) == None

(* ----------------- a host driving the boundary calls ------------------ *)

\* The settings the host builds operators from: every waveform tag and two
\* that name no variant; the release time is one second, given as nanoseconds.
FfiTags == -1..7
FfiSettings ==
    {[waveform |-> [ty |-> ty, data |-> PomWaveformData(F(1, 2), 0, F(1, 2))],
      envelope |-> [attack_time |-> PomDuration(0, 0), halving_rate |-> Zero,
                    release_time |-> PomDuration(0, NANOS_PER_SEC)],
      modifiers |-> DefaultMods] : ty \in FfiTags}

\* The combinator types and the sample formats the host passes: the known
\* codes and two unknown ones.
FfiCombinatorTypes == -1..2
FfiFormats == -1..5

\* The global times of the sample calls and of the batch fills: early ones
\* and Duration::MAX; and the intervals of the fills.
FfiTimes ==
    {PomDuration(0, 1), PomDuration(U64_MAX, NANOS_PER_SEC - 1)}
FillIntervals == {PomDuration(0, 1)}
\* The <<global time, length, sample format>> of the batch fills: every
\* format for the longest buffer at the early time, and every length at
\* either time for the first format.
FillCalls ==
    {<<PomDuration(0, 1), MaxFill, sample_format>> : sample_format \in FfiFormats}
    \cup {<<global_time, length, 0>> : global_time \in FfiTimes, length \in 0..MaxFill}
\* The <<length, type>> of the pom_create_combinator calls: every type over
\* the longest list, and every length for the first type.
CombinatorCalls ==
    {<<MaxOps, ty>> : ty \in FfiCombinatorTypes} \cup {<<length, 0>> : length \in 0..MaxOps}

\* The frequencies pom_frequency_to_interval is given.
FfiFrequencies == {FInt(2), F(1, U64_MAX + 1), Zero, NaN}

\* The buffer pom_add_pcm_sample is given, in the encoding of the format.
PcmBuffer(sample_format) ==
    LET format == get_sample_format(sample_format)
    IN  IF format.err THEN <<>>
        ELSE IF format.format \in {"F32", "F64"} THEN <<FNeg(One), One, One>>
        ELSE <<FormatMin(format.format), FormatMax(format.format),
               FormatMax(format.format)>>
\* PomPCMSampleSettings: a loop of one period from period 1/NANOS_PER_SEC on.
PcmSettings ==
    [samples_per_period |-> FInt(NANOS_PER_SEC), loop_point |-> PomDuration(0, 1),
     loop_duration |-> PomDuration(0, NANOS_PER_SEC)]

\* The record of a boundary call: its name, the tag it was given (the
\* waveform tag, the combinator type or the sample format), the result code
\* (None for a call that returns none, or that panicked), the pairs and the
\* Durations they were converted to, and what the call gave back.
NoFfiCall ==
    [call |-> "none", tag |-> None, code |-> None, ret |-> "", fault |-> "",
     global_time |-> None, time |-> None,
     sample_interval |-> None, interval |-> None,
     length |-> 0, frequency |-> Zero, value |-> Zero,
     data |-> <<>>, times |-> <<>>, output |-> None]

\* The synth the host drives was built from the PCM tag.
InitFfi ==
    /\ \E settings \in FfiSettings :
          /\ settings.waveform.ty = 5
          /\ op = pom_create_operator(settings).output[1]
    /\ stacker = [operators |-> <<>>, instructions |-> <<>>]
    /\ combinator = [synths |-> <<>>, ty |-> "Sum"]
    /\ bank = None
    /\ last = NoFfiCall

\* The host goes on for as long as no call panicked and it holds its synth:
\* pom_destroy_synth is the last call it makes.
HostHoldsSynth == last.ret # "panic" /\ last.call # "pom_destroy_synth"

\* The calls that build a further synth: pom_create_operator, and
\* pom_create_modulator, pom_create_summation and pom_create_combinator over
\* the host's synth.  The handle they write is recorded with the call.
FfiCreateOperator(settings) ==
    LET created == pom_create_operator(settings)
    IN  /\ HostHoldsSynth
        /\ last' = [NoFfiCall EXCEPT !.call = "pom_create_operator",
                                     !.tag = Some(settings.waveform.ty),
                                     !.code = Some(created.code),
                                     !.output = created.output]
        /\ UNCHANGED <<op, stacker, combinator, bank>>

FfiCreateModulator ==
    LET created == pom_create_modulator(op, op)
    IN  /\ HostHoldsSynth
        /\ last' = [NoFfiCall EXCEPT !.call = "pom_create_modulator",
                                     !.code = Some(created.code),
                                     !.output = created.output]
        /\ UNCHANGED <<op, stacker, combinator, bank>>

FfiCreateSummation ==
    LET created == pom_create_summation(op, op)
    IN  /\ HostHoldsSynth
        /\ last' = [NoFfiCall EXCEPT !.call = "pom_create_summation",
                                     !.code = Some(created.code),
                                     !.output = created.output]
        /\ UNCHANGED <<op, stacker, combinator, bank>>

FfiCreateCombinator(length, ty) ==
    LET created == pom_create_combinator([i \in 1..MaxOps |-> op], length, ty)
    IN  /\ HostHoldsSynth
        /\ last' = [NoFfiCall EXCEPT !.call = "pom_create_combinator",
                                     !.tag = Some(ty),
                                     !.length = length,
                                     !.code = Some(created.code),
                                     !.output = created.output]
        /\ UNCHANGED <<op, stacker, combinator, bank>>

\* pom_clone_synth(&mut synth, synth).
FfiCloneSynth ==
    LET created == pom_clone_synth(op)
    IN  /\ HostHoldsSynth
        /\ op' = created.output[1]
        /\ last' = [NoFfiCall EXCEPT !.call = "pom_clone_synth",
                                     !.code = Some(created.code),
                                     !.output = created.output]
        /\ UNCHANGED <<stacker, combinator, bank>>

FfiPlay(frequency, volume) ==
    /\ HostHoldsSynth
    /\ op' = pom_play(op, frequency, volume)
    /\ last' = [NoFfiCall EXCEPT !.call = "pom_play", !.frequency = frequency]
    /\ UNCHANGED <<stacker, combinator, bank>>

\* pom_release and pom_cut.
FfiRelease ==
    /\ HostHoldsSynth
    /\ op' = pom_release(op)
    /\ last' = [NoFfiCall EXCEPT !.call = "pom_release"]
    /\ UNCHANGED <<stacker, combinator, bank>>

FfiCut ==
    /\ HostHoldsSynth
    /\ op' = pom_cut(op)
    /\ last' = [NoFfiCall EXCEPT !.call = "pom_cut"]
    /\ UNCHANGED <<stacker, combinator, bank>>

\* pom_destroy_synth(synth): the synth is dropped as it is.
FfiDestroySynth ==
    /\ HostHoldsSynth
    /\ last' = [NoFfiCall EXCEPT !.call = "pom_destroy_synth",
                                 !.output = pom_destroy_synth(op)]
    /\ UNCHANGED <<op, stacker, combinator, bank>>

\* pom_sample.  (A Sine operator, whose values are irrational, is not sampled.)
FfiSample(global_time, input_phase_offset) ==
    \E out \in {pom_sample(op, bank, global_time, input_phase_offset)} :
        /\ HostHoldsSynth
        /\ op.waveform.ty # "Sine"
        /\ Followed(out.synth)
        /\ op' = out.synth
        /\ last' = [NoFfiCall EXCEPT !.call = "pom_sample",
                                     !.global_time = Some(global_time),
                                     !.time = Some(PomDuration_to_rust(global_time)),
                                     !.value = out.value,
                                     !.ret = IF out.panic THEN "panic" ELSE "",
                                     !.fault = IF out.panic THEN "sample" ELSE ""]
        /\ UNCHANGED <<stacker, combinator, bank>>

\* pom_fill.
FfiFill(global_time, sample_interval, length, sample_format) ==
    \E out \in {pom_fill(op, bank, global_time, sample_interval, length,
                         sample_format, Zero)} :
        /\ HostHoldsSynth
        /\ op.waveform.ty # "Sine"
        /\ Followed(out.fill.synth)
        /\ op' = out.fill.synth
        /\ last' = [NoFfiCall EXCEPT !.call = "pom_fill",
                                     !.tag = Some(sample_format),
                                     !.global_time = Some(global_time),
                                     !.time = Some(PomDuration_to_rust(global_time)),
                                     !.sample_interval = Some(sample_interval),
                                     !.interval =
                                         Some(PomDuration_to_rust(sample_interval)),
                                     !.length = length,
                                     !.code = IF out.fill.fault # "" THEN None
                                              ELSE Some(out.code),
                                     !.ret = IF out.fill.fault # "" THEN "panic"
                                             ELSE "",
                                     !.fault = out.fill.fault,
                                     !.data = out.fill.data,
                                     !.times = out.fill.times]
        /\ UNCHANGED <<stacker, combinator, bank>>

\* pom_frequency_to_interval.
FfiFrequencyToInterval(frequency) ==
    LET out == pom_frequency_to_interval(frequency)
    IN  /\ HostHoldsSynth
        /\ last' = IF out.panic
                   THEN [NoFfiCall EXCEPT !.call = "pom_frequency_to_interval",
                                          !.frequency = frequency,
                                          !.ret = "panic",
                                          !.fault = "div_f64"]
                   ELSE [NoFfiCall EXCEPT !.call = "pom_frequency_to_interval",
                                          !.frequency = frequency,
                                          !.interval = Some(out.v.duration),
                                          !.sample_interval = Some(out.v.interval)]
        /\ UNCHANGED <<op, stacker, combinator, bank>>

\* pom_create_pcm_bank(&mut bank) and pom_clone_pcm_bank(&mut bank, bank).
FfiCreatePcmBank ==
    LET created == pom_create_pcm_bank
    IN  /\ HostHoldsSynth
        /\ bank' = created.output
        /\ last' = [NoFfiCall EXCEPT !.call = "pom_create_pcm_bank",
                                     !.code = Some(created.code)]
        /\ UNCHANGED <<op, stacker, combinator>>

FfiClonePcmBank ==
    LET created == pom_clone_pcm_bank(bank)
    IN  /\ HostHoldsSynth
        /\ bank' = created.output
        /\ last' = [NoFfiCall EXCEPT !.call = "pom_clone_pcm_bank",
                                     !.code = Some(created.code)]
        /\ UNCHANGED <<op, stacker, combinator>>

\* pom_destroy_pcm_bank(bank), on a bank that was created; the host keeps the
\* null handle from then on.
FfiDestroyPcmBank ==
    /\ HostHoldsSynth
    /\ bank # None
    /\ bank' = pom_destroy_pcm_bank(bank)
    /\ last' = [NoFfiCall EXCEPT !.call = "pom_destroy_pcm_bank"]
    /\ UNCHANGED <<op, stacker, combinator>>

\* pom_add_pcm_sample, on a bank that was created.
FfiAddPcmSample(pcm_sample_format) ==
    LET pcm_data == PcmBuffer(pcm_sample_format)
        out == pom_add_pcm_sample(bank[1], pcm_data, Len(pcm_data),
                                  pcm_sample_format, 0, PcmSettings)
    IN  /\ HostHoldsSynth
        /\ bank # None
        /\ bank' = Some(out.samples)
        /\ last' = [NoFfiCall EXCEPT !.call = "pom_add_pcm_sample",
                                     !.tag = Some(pcm_sample_format),
                                     !.length = Len(pcm_data),
                                     !.code = Some(out.code)]
        /\ UNCHANGED <<op, stacker, combinator>>

NextFfi ==
    \/ \E settings \in FfiSettings : FfiCreateOperator(settings)
    \/ FfiCreateModulator
    \/ FfiCreateSummation
    \/ \E call \in CombinatorCalls : FfiCreateCombinator(call[1], call[2])
    \/ FfiCloneSynth
    \/ FfiPlay(One, One)
    \/ FfiRelease
    \/ FfiCut
    \/ FfiDestroySynth
    \/ \E global_time \in FfiTimes : FfiSample(global_time, Zero)
    \/ \E call \in FillCalls, sample_interval \in FillIntervals :
          FfiFill(call[1], sample_interval, call[2], call[3])
    \/ \E frequency \in FfiFrequencies : FfiFrequencyToInterval(frequency)
    \/ FfiCreatePcmBank
    \/ FfiClonePcmBank
    \/ FfiDestroyPcmBank
    \/ \E pcm_sample_format \in FfiFormats : FfiAddPcmSample(pcm_sample_format)

SpecFfi == InitFfi /\ [][NextFfi]_vars

(* -------------------- claims about the boundary calls ----------------- *)

\* C11 (as claimed): every time addition saturates; a batch fill advances
\* the global time by the interval after each element, so that it samples
\* element k at global_time + k * interval, saturated at Duration::MAX, and
\* does not fault when that sum is past the greatest Duration.
C11_FillSaturates ==
    ( /\ last.call = "pom_fill"
      /\ ~get_sample_format(last.tag[1]).err
      /\ last.fault # "sample" )
    => /\ last.ret # "panic"
       /\ Len(last.times) = last.length
       /\ \A k \in 1..Len(last.times) :
             last.times[k] =
                 saturating_add(last.time[1], (k - 1) * last.interval[1])

\* C14: an unknown waveform tag given to pom_create_operator is the only
\* thing that returns InvalidInput; every other call returns Success or a
\* plain value, whatever it is given.
C14_OnlyWaveformTagIsInvalid ==
    LET unknown_waveform == /\ last.call = "pom_create_operator"
                            /\ PomWaveform_to_rust(
                                   [ty |-> last.tag[1],
                                    data |-> PomWaveformData(Zero, 0, Zero)]) = None
    IN  /\ last.code = Some(InvalidInput) => unknown_waveform
        /\ (last.call # "none" /\ ~unknown_waveform)
               => (last.ret # "panic" /\ last.code \in {None, Some(Success)})

(* ------------- the time pairs of the boundary, on their own ----------- *)

\* The pairs a host can build, whatever their nanoseconds field holds, and
\* the Durations of the library.
PomDurations ==
    {PomDuration(seconds, nanoseconds) :
        seconds \in 0..U64_MAX, nanoseconds \in 0..U32_MAX}
Durations == 0..DURATION_MAX

\* A pair (self) and a Duration (value) are given; nothing is converted yet.
InitTime ==
    /\ op = Operator_new([ty |-> "Sawtooth"], Env(0, Zero, 0), DefaultMods)
    /\ stacker = [operators |-> <<>>, instructions |-> <<>>]
    /\ combinator = [synths |-> <<>>, ty |-> "Sum"]
    /\ bank = None
    /\ \E self \in PomDurations, value \in Durations :
          last = [call |-> "none", self |-> self, value |-> value,
                  to_rust |-> None, from |-> None, round_trip |-> None]

\* self.to_rust()
TimeToRust ==
    /\ last' = [last EXCEPT !.call = "to_rust",
                            !.to_rust = Some(PomDuration_to_rust(last.self))]
    /\ UNCHANGED <<op, stacker, combinator, bank>>

\* PomDuration::from(value)
TimeFrom ==
    /\ last' = [last EXCEPT !.call = "from",
                            !.from = Some(PomDuration_from(last.value))]
    /\ UNCHANGED <<op, stacker, combinator, bank>>

\* PomDuration::from(value).to_rust()
TimeRoundTrip ==
    /\ last.from # None
    /\ last' = [last EXCEPT !.call = "round_trip",
                            !.round_trip = Some(PomDuration_to_rust(last.from[1]))]
    /\ UNCHANGED <<op, stacker, combinator, bank>>

NextTime ==
    \/ TimeToRust
    \/ TimeFrom
    \/ TimeRoundTrip

SpecTime == InitTime /\ [][NextTime]_vars

\* C15: a Duration turned into a pair and back is the same Duration, and a
\* pair (s, n) becomes s seconds plus n nanoseconds when s + n div 10^9 fits
\* in 64 bits, and the greatest Duration when it does not.
C15_TimePairRoundTrips ==
    /\ last.from # None
          => /\ last.from[1].seconds * NANOS_PER_SEC + last.from[1].nanoseconds
                    = last.value
             /\ last.from[1].nanoseconds < NANOS_PER_SEC
    /\ last.round_trip # None => last.round_trip[1] = last.value
    /\ last.to_rust # None
          => last.to_rust[1] =
                 IF last.self.seconds + last.self.nanoseconds \div NANOS_PER_SEC
                        <= U64_MAX
                 THEN last.self.seconds * NANOS_PER_SEC + last.self.nanoseconds
                 ELSE DURATION_MAX

\* A Duration with whole seconds and a fraction went to a pair and back, and
\* a pair whose nanoseconds hold more than a second was converted with a
\* carry into the seconds that still fits.
C15_Witness ==
    /\ last.round_trip # None
    /\ last.value > NANOS_PER_SEC
    /\ last.value % NANOS_PER_SEC # 0
    /\ last.to_rust # None
    /\ last.self.nanoseconds >= NANOS_PER_SEC
    /\ last.self.seconds > 0
    /\ last.self.seconds + last.self.nanoseconds \div NANOS_PER_SEC <= U64_MAX

(* --------------- Waveform::sample and Sample::get alone --------------- *)

\* A bank of looping samples: loops of one period, of one unit and of more
\* than a period, from different loop points; sample 3 stores one amplitude
\* per period.  The data is shorter than the periods reach.
WaveData == <<F(1, 4), F(1, 2), F(-1, 2)>>
WaveBank ==
    (0 :> [samples_per_period |-> FInt(NANOS_PER_SEC), loop_point |-> 1,
           loop_duration |-> NANOS_PER_SEC, pcm_data |-> WaveData])
    @@ (1 :> [samples_per_period |-> FInt(NANOS_PER_SEC), loop_point |-> 0,
              loop_duration |-> 1, pcm_data |-> WaveData])
    @@ (2 :> [samples_per_period |-> FInt(NANOS_PER_SEC), loop_point |-> 2,
              loop_duration |-> NANOS_PER_SEC + 1, pcm_data |-> WaveData])
    @@ (3 :> [samples_per_period |-> One, loop_point |-> NANOS_PER_SEC,
              loop_duration |-> NANOS_PER_SEC, pcm_data |-> WaveData])

\* The waveforms sampled: the PCM waveforms of the bank and of an absent
\* sample, and Absolute and Cut over PCM and over computed waveforms.
WaveBases ==
    {[ty |-> "PCM", sample_id |-> id] : id \in {0, 2}}
    \cup {[ty |-> "Sawtooth"], [ty |-> "Triangle"],
          [ty |-> "Pulse", duty_cycle |-> F(1, 2)],
          [ty |-> "Constant", value |-> F(-1, 2)],
          [ty |-> "Thin", base |-> [ty |-> "Sawtooth"],
           waveform_active_percent |-> F(1, 2)]}
WaveInputs ==
    {[ty |-> "PCM", sample_id |-> id] : id \in 0..4}
    \cup {[ty |-> "Absolute", base |-> base] : base \in WaveBases}
    \cup {[ty |-> "Cut", base |-> base, waveform_active_percent |-> F(1, 2)] :
             base \in WaveBases}
WaveOffsets == {Zero, F(1, 2), F(-1, 2), FInt(-1)}

\* A waveform, a period and a phase offset are given; nothing is sampled yet.
InitWave ==
    /\ op = Operator_new([ty |-> "Sawtooth"], Env(0, Zero, 0), DefaultMods)
    /\ stacker = [operators |-> <<>>, instructions |-> <<>>]
    /\ combinator = [synths |-> <<>>, ty |-> "Sum"]
    /\ bank = Some(WaveBank)
    /\ \E waveform \in WaveInputs, period \in 0..DURATION_MAX,
          phase_offset \in WaveOffsets :
          last = [call |-> "none", waveform |-> waveform, period |-> period,
                  phase_offset |-> phase_offset, panic |-> FALSE,
                  value |-> Zero, position |-> None]

\* waveform.sample(&bank, period, phase_offset)
WaveSample ==
    \E out \in {Waveform_sample(last.waveform, bank[1], last.period,
                                last.phase_offset)} :
        /\ last' = [last EXCEPT !.call = "sample", !.panic = out.panic,
                                !.value = out.v, !.position = None]
        /\ UNCHANGED <<op, stacker, combinator, bank>>

\* bank.samples[sample_id].get(period, phase_offset), with the period it
\* looked its amplitude up at.
WaveGet ==
    /\ last.waveform.ty = "PCM"
    /\ last.waveform.sample_id \in DOMAIN bank[1]
    /\ LET self == bank[1][last.waveform.sample_id]
           shifted == Sample_offset_period(last.period, last.phase_offset)
           out == Sample_get(self, last.period, last.phase_offset)
       IN  last' = [last EXCEPT
                       !.call = "get", !.panic = out.panic, !.value = out.v,
                       !.position =
                           IF shifted.kind = "period" /\ ~out.panic
                           THEN Some(Sample_loop_period(self, shifted.v).v)
                           ELSE None]
    /\ UNCHANGED <<op, stacker, combinator, bank>>

NextWave ==
    \/ WaveSample
    \/ WaveGet

SpecWave == InitWave /\ [][NextWave]_vars

\* C12: for a Sample whose loop has a length and a period whose
\* offset-adjusted value p is at or past the loop point, get looks its
\* amplitude up at a period in [loop_point, loop_point + loop_duration), and
\* get one loop_duration later returns the same amplitude, as long as the
\* later period and p + loop_duration do not saturate.
C12_GetIsPeriodicPastLoopPoint ==
    last.call = "get" =>
        LET self == bank[1][last.waveform.sample_id]
            shifted == Sample_offset_period(last.period, last.phase_offset)
        IN  ( /\ self.loop_duration > 0
              /\ shifted.kind = "period"
              /\ shifted.v >= self.loop_point
              /\ shifted.v + self.loop_duration <= DURATION_MAX
              /\ last.period + self.loop_duration <= DURATION_MAX )
            => /\ ~last.panic
               /\ last.position # None
               /\ last.position[1] >= self.loop_point
               /\ last.position[1] < self.loop_point + self.loop_duration
               /\ Sample_get(self, last.period + self.loop_duration,
                             last.phase_offset) = Ok(last.value)

\* A get with a phase offset whose adjusted period is a whole loop or more
\* past the loop point, in a loop over several stored amplitudes, and reads
\* an amplitude of the data.
C12_Witness ==
    /\ last.call = "get"
    /\ last.phase_offset # Zero
    /\ last.position # None
    /\ LET self == bank[1][last.waveform.sample_id]
           shifted == Sample_offset_period(last.period, last.phase_offset)
       IN  /\ self.loop_duration > 1
           /\ self.loop_point > 0
           /\ shifted.v >= self.loop_point + self.loop_duration
           /\ shifted.v + self.loop_duration <= DURATION_MAX
           /\ last.period + self.loop_duration <= DURATION_MAX
    /\ last.value # Zero

\* C13 (as claimed): Absolute(base) and Cut{base, f} sample their base at
\* the caller's period, for every base, PCM included, and every period, those
\* of a cycle or more included: Absolute gives the absolute value of the
\* base sampled at that period, and Cut, while the wrapped phase is not
\* greater than f, gives the base sampled at that period.
C13_WrappersSampleBaseAtCallersPeriod ==
    (last.call = "sample" /\ ~last.panic) =>
        /\ last.waveform.ty = "Absolute"
              => last.value =
                     FAbs(Waveform_sample(last.waveform.base, bank[1], last.period,
                                          last.phase_offset).v)
        /\ ( /\ last.waveform.ty = "Cut"
             /\ ~FGt(Waveform_phase(last.period, last.phase_offset),
                     last.waveform.waveform_active_percent) )
              => last.value =
                     Waveform_sample(last.waveform.base, bank[1], last.period,
                                     last.phase_offset).v

(* ------------- claims about the playback state of an Operator --------- *)

\* C16: release sets stop_point to the global time of the latest sample
\* call, zero when there was none, only when stop_point is unset, and changes
\* nothing else; a set stop_point is left as it is by release and by sample,
\* and is cleared by play and by cut, and by nothing else.
C16_ReleaseSetsStopPointOnce ==
    /\ [][last'.call = "release"
             => op' = [op EXCEPT !.stop_point =
                          IF op.stop_point = None
                          THEN Some(IF op.last_global_time = None THEN 0
                                    ELSE op.last_global_time[1])
                          ELSE op.stop_point]]_vars
    /\ [][(op.stop_point # None /\ last'.call \in {"release", "sample"})
             => op'.stop_point = op.stop_point]_vars
    /\ [][(op.stop_point # None /\ op'.stop_point = None)
             => last'.call \in {"play", "cut"}]_vars
    /\ [][last'.call \in {"play", "cut"} => op'.stop_point = None]_vars

\* A release of an operator that was released at an earlier global time and
\* sampled since: the stop point is not the last global time.
C16_Witness ==
    /\ last.call = "release"
    /\ op.stop_point # None
    /\ op.last_global_time # None
    /\ op.stop_point[1] > 0
    /\ op.stop_point[1] < op.last_global_time[1]

\* C17: every sample call records its global time as the last one seen; a
\* call that returns a value advances current_waveform_period by delta_time
\* times the frequency, where delta_time is the time since the previous
\* sample call, 0 on the first call and when time went backwards; a call
\* that returns None (off, not started, envelope ended) leaves it unchanged.
C17_SampleRecordsTimeAndAdvancesPhase ==
    [][last'.call = "sample" =>
          LET delta_time ==
                  IF op.last_global_time = None
                     \/ last'.global_time < op.last_global_time[1]
                  THEN 0
                  ELSE last'.global_time - op.last_global_time[1]
          IN  /\ op'.last_global_time = Some(last'.global_time)
              /\ last'.ret = "value"
                    => /\ last'.result # None
                       /\ F(op'.current_waveform_period - op.current_waveform_period,
                            NANOS_PER_SEC)
                              = FMul(F(delta_time, NANOS_PER_SEC), op.frequency)
              /\ last'.ret \in {"off", "not_started", "ended"}
                    => /\ last'.result = None
                       /\ op'.current_waveform_period = op.current_waveform_period
              /\ last'.ret \in {"off", "not_started", "ended", "value", "panic"}]_vars

\* A sample call returned a value with the accumulator past the second,
\* further than one sample call takes it at this frequency, at a global time
\* later than the note's start.
C17_Witness ==
    /\ last.call = "sample"
    /\ last.ret = "value"
    /\ op.current_waveform_period > NANOS_PER_SEC
    /\ FGt(F(op.current_waveform_period, NANOS_PER_SEC),
           FMul(F(MaxTime, NANOS_PER_SEC), op.frequency))
    /\ IsStarted(op)
    /\ op.start_time[1][1] < last.global_time

\* C18: play, cut and release change neither current_waveform_period nor
\* last_global_time, and no call makes current_waveform_period smaller: a
\* note played again goes on from the phase the earlier notes accumulated.
C18_PhaseIsNeverReset ==
    /\ [][last'.call \in {"play", "cut", "release"}
             => /\ op'.current_waveform_period = op.current_waveform_period
                /\ op'.last_global_time = op.last_global_time]_vars
    /\ [][op'.current_waveform_period >= op.current_waveform_period]_vars

\* A play call on an operator that was sampled before and whose earlier
\* notes accumulated phase.
C18_Witness ==
    /\ last.call = "play"
    /\ op.current_waveform_period > NANOS_PER_SEC
    /\ op.last_global_time # None
    /\ op.start_time = Started(op.last_global_time[1])

=============================================================================
